---- MODULE Spec2Model ----
(***************************************************************************)
(* The message loop of `infect`: a bounded futures::channel::mpsc channel  *)
(* (messaging.rs), process_message and consume_messages (processing.rs),   *)
(* driven by a Model, a ModelRender and a TaskExecutor that are trait      *)
(* objects of the embedding application (model.rs, task.rs).  The three    *)
(* collaborators are modelled by their contract: every answer the trait    *)
(* signature allows is a nondeterministic choice.  Spec is that loop;      *)
(* SpecMessageLoop is the older loop that messaging.rs still holds          *)
(* (message_loop over handle_next_message, state.rs); SpecHints sums render *)
(* hints on their own (model.rs, state.rs).  FairSpec is Spec with a        *)
(* consumer that runs whenever it can; RestartSpec adds an embedder that    *)
(* calls consume_messages again after a rejection; SpinSpec adds a model    *)
(* whose next_effect chain never ends.                                      *)
(***************************************************************************)
EXTENDS Naturals, Sequences, FiniteSets

\* ---------------------------------------------------------------- bounds
\* Messages created over a run: by the external sender, the tasks and the renderer.
MaxSends == 2
\* Longest next_effect chain the model answers with (links after the first step).
MaxChain == 1
\* Tasks the model returns over a run.
MaxTasks == 1
\* Largest `capacity` message_channel() is called with.
MaxCapacity == 1
\* Longest sequence of render hints that is summed up.
MaxHints == 5
\* Calls of consume_messages after the first one.
MaxRestarts == 1
\* Passes of the loop of process_message that the history counts in a chain
\* that does not end.
MaxSpin == 2

\* Option<T>: None is the empty sequence, Some(x) the sequence of x.
None == <<>>
Some(x) == <<x>>
IsSome(o) == o # <<>>
Unwrap(o) == o[1]

VARIABLES
    capacity,       \* message_channel's argument: the `buffer` of mpsc::channel
    queue,          \* mpsc: the messages in the channel, oldest first
    is_open,        \* mpsc: the channel has not been closed
    parked_queue,   \* mpsc: senders that used their guaranteed slot, oldest first
    pc,             \* consume_messages: "top" | "process" | "try_next" | "stopped"
    message,        \* process_message: the message (or chained effect) being processed
    next_message,   \* consume_messages: the Option buffered by try_next()
    progressing,    \* process_message: the local flag
    result,         \* consume_messages: the MessagesConsumed it returned, or None
    model,          \* Model: the accepted intents and applied effects, in order
    tasks,          \* TaskExecutor: the spawned tasks, each holding a clone of the port.
                    \*   (consume_messages never asks whether a task has finished: one that
                    \*   has is, to this loop, a task that submits nothing more.)
    spawned,        \* TaskExecutor: every task handed to spawn_task, in order
    next_id,        \* identity of the next message created
    accepted,       \* history: ids the channel accepted, in order
    dropped,        \* history: the dropped sends (id, error, sender, queue length then,
                    \*          and whether the queue was left as it was)
    dequeued,       \* history: ids the receiver handed out, in order
    processed,      \* history: ids passed to process_message, in order
    state_changed,  \* handle_next_message (messaging.rs): the local sum of the changes
    number_of_next_actions, \* handle_next_message (messaging.rs): the local counter
    hints,          \* render hints: the hints to sum up, in order (an input)
    sum,            \* render hints: how many of `hints` were added, and their sum
    rejections,     \* embedder: the rejections consume_messages was called again after
                    \*   (the rejected intent, the reason, the model at that time)
    inv             \* history: what the current/last process_message invocation did
                    \*   (`rendered`: the render_model calls, each with the chain step
                    \*   it followed, the hint it was given and whether that step was
                    \*   the chain's last; `acc`: the sum of the hints returned so far;
                    \*   `returned`: the tasks the model returned, in order)

vars == <<capacity, queue, is_open, parked_queue, pc, message, next_message,
          progressing, result, model, tasks, spawned, next_id, accepted, dropped,
          dequeued, processed, state_changed, number_of_next_actions, hints, sum,
          rejections, inv>>

chan_vars == <<capacity, queue, is_open, parked_queue>>
hist_send == <<accepted, dropped, next_id>>
\* The locals of the older loop (messaging.rs), which processing.rs does not have.
loop_vars == <<state_changed, number_of_next_actions>>
\* The operands and the result of summing render hints on their own.
hint_vars == <<hints, sum>>
\* What the embedder keeps when it calls consume_messages again.
restart_vars == <<rejections>>

\* ------------------------------------------------------------ data types
\* Message<Intent, Effect>.  `id` identifies the message, `step` is the position
\* in its next_effect chain (0 for a message that came through the channel),
\* `pay` the payload: an intent the test model accepts ("ok") or rejects ("bad").
Intent(id, pay, from) == [kind |-> "Intent", id |-> id, step |-> 0, pay |-> pay, from |-> from]
Effect(id, step, from) == [kind |-> "Effect", id |-> id, step |-> step, pay |-> "e", from |-> from]

\* The senders of the channel: the message port of the loop's TaskContext, an
\* external producer's MessageSender, and the port clone each task is spawned with.
PortSender == [s |-> "port", id |-> 0, step |-> 0]
ExtSender == [s |-> "ext", id |-> 0, step |-> 0]
TaskSender(t) == [s |-> "task", id |-> t.id, step |-> t.step]

\* ModelChanged and its ModelRenderHint implementation.
ModelChanged == {"Unchanged", "MaybeChanged"}
DefaultHint == "Unchanged"

\* A sum that keeps the right operand only (the last hint wins).
add_rhs(lhs, rhs) == rhs

\* `impl Add for ModelChanged`: Unchanged only if both sides are.
add(lhs, rhs) ==
    IF lhs = "Unchanged" /\ rhs = "Unchanged" THEN "Unchanged" ELSE "MaybeChanged"

NoEffectApplied == [task |-> None, render_hint |-> DefaultHint, next_effect |-> None]

\* MessageProcessed and MessagesConsumed values; `reason` is the IntentRejected
\* payload (0 when the variant has none).
Outcome(kind, reason) == [kind |-> kind, reason |-> reason]

NewInvocation(m, via) ==
    [msg |-> Some(m), via |-> via, handles |-> 0, applies |-> 0, spawns |-> 0, renders |-> 0,
     observed |-> 0, enq |-> 0, nexts |-> 0, hinted |-> 0, tasked |-> 0,
     rendered |-> <<>>, acc |-> DefaultHint,
     returned |-> <<>>, spawned_before |-> spawned,
     model_before |-> model, outcome |-> Outcome("running", 0)]

Init ==
    /\ capacity \in 0..MaxCapacity
    /\ queue = <<>>
    /\ is_open = TRUE
    /\ parked_queue = <<>>
    /\ pc = "top"
    /\ message = None
    /\ next_message = None
    /\ progressing = FALSE
    /\ result = None
    /\ model = <<>>
    /\ tasks = {}
    /\ spawned = <<>>
    /\ next_id = 1
    /\ accepted = <<>>
    /\ dropped = {}
    /\ dequeued = <<>>
    /\ processed = <<>>
    /\ state_changed = "Unchanged"
    /\ number_of_next_actions = 0
    /\ hints = <<>>
    /\ sum = [n |-> 0, value |-> DefaultHint]
    /\ rejections = <<>>
    /\ inv = [msg |-> None, via |-> "none", handles |-> 0, applies |-> 0, spawns |-> 0, renders |-> 0,
              observed |-> 0, enq |-> 0, nexts |-> 0, hinted |-> 0, tasked |-> 0,
              rendered |-> <<>>, acc |-> DefaultHint,
              returned |-> <<>>, spawned_before |-> <<>>,
              model_before |-> <<>>, outcome |-> Outcome("none", 0)]

\* ------------------------------------------------- the channel (messaging.rs)
\* message_channel(capacity) is futures::channel::mpsc::channel(capacity): the
\* argument is the channel's `buffer`, and every Sender (each clone is one) owns
\* one guaranteed slot on top of it.  A sender whose message took the channel
\* beyond `buffer` is parked; the receiver unparks the oldest parked sender with
\* every message it takes out.
IsParked(s) == \E i \in 1..Len(parked_queue) : parked_queue[i] = s

\* A try_send that makes room for the newest message by evicting the oldest one
\* when its sender is out of slots.
try_send_evict(s, m) ==
    IF IsParked(s)
    THEN [res |-> "full", queue |-> Append(Tail(queue), m), parked_queue |-> parked_queue]
    ELSE IF ~is_open
    THEN [res |-> "disconnected", queue |-> queue, parked_queue |-> parked_queue]
    ELSE [res |-> "ok",
          queue |-> Append(queue, m),
          parked_queue |-> IF Len(queue) + 1 > capacity
                           THEN Append(parked_queue, s)
                           ELSE parked_queue]

\* A try_send of a channel that holds `capacity` messages and no more: no sender
\* has a slot of its own.
try_send_strict(s, m) ==
    IF Len(queue) >= capacity
    THEN [res |-> "full", queue |-> queue, parked_queue |-> parked_queue]
    ELSE IF ~is_open
    THEN [res |-> "disconnected", queue |-> queue, parked_queue |-> parked_queue]
    ELSE [res |-> "ok", queue |-> Append(queue, m), parked_queue |-> parked_queue]

\* Sender::try_send as send_message calls it: Err(full) for a parked sender,
\* Err(disconnected) on a closed channel, else the message is queued and the
\* sender parks if the channel now holds more than `buffer` messages.
try_send(s, m) ==
    IF IsParked(s)
    THEN [res |-> "full", queue |-> queue, parked_queue |-> parked_queue]
    ELSE IF ~is_open
    THEN [res |-> "disconnected", queue |-> queue, parked_queue |-> parked_queue]
    ELSE [res |-> "ok",
          queue |-> Append(queue, m),
          parked_queue |-> IF Len(queue) + 1 > capacity
                           THEN Append(parked_queue, s)
                           ELSE parked_queue]

\* send_message: try_send, and the message is dropped (logged only) on any error.
\* Nothing is returned to the caller.
send_message(s, m) ==
    LET r == try_send(s, m)
    IN  [queue |-> r.queue, parked_queue |-> r.parked_queue,
         sent |-> (r.res = "ok"), why |-> r.res]

\* MessagePort::submit_intent, reached through TaskContext::submit_intent: the
\* port's own sender enqueues the intent with drop-on-failure.
submit_intent(m) == send_message(PortSender, m)

\* A receiver that takes the newest message out instead of the oldest.
next_message_rx_newest ==
    [msg |-> queue[Len(queue)],
     queue |-> SubSeq(queue, 1, Len(queue) - 1),
     parked_queue |-> IF parked_queue = <<>> THEN <<>> ELSE Tail(parked_queue)]

\* A receiver that throws away the message behind the one it takes out.
next_message_rx_skipping ==
    [msg |-> Head(queue),
     queue |-> IF Len(queue) >= 2 THEN Tail(Tail(queue)) ELSE Tail(queue),
     parked_queue |-> IF parked_queue = <<>> THEN <<>> ELSE Tail(parked_queue)]

\* Receiver: taking the oldest message out (next().await and try_next() share
\* this), which unparks the oldest parked sender.
next_message_rx ==
    [msg |-> Head(queue),
     queue |-> Tail(queue),
     parked_queue |-> IF parked_queue = <<>> THEN <<>> ELSE Tail(parked_queue)]

\* One enqueue through sender s, with its bookkeeping.
Enqueue(r, m) ==
    /\ queue' = r.queue
    /\ parked_queue' = r.parked_queue
    /\ accepted' = IF r.sent THEN Append(accepted, m.id) ELSE accepted
    /\ dropped' = IF r.sent THEN dropped
                  ELSE dropped \cup {[id |-> m.id, why |-> r.why, from |-> m.from,
                                      intact |-> (r.queue = queue), qlen |-> Len(queue)]}
    /\ next_id' = next_id + 1

\* ------------------------------------------------ the collaborators' answers
\* A model whose answer hangs on something that is not part of the model: it
\* rejects an intent only the first time it sees it.
handle_intent_once(m, ea) ==
    IF m.pay = "bad" /\ \A i \in 1..Len(rejections) : rejections[i].intent.id # m.id
    THEN [rejected |-> TRUE, reason |-> m.id, effect_applied |-> NoEffectApplied]
    ELSE [rejected |-> FALSE, reason |-> 0, effect_applied |-> ea]

\* Model::handle_intent of the test model: the intent's payload decides; a
\* rejection carries the intent (its id) as the reason.
handle_intent(m, ea) ==
    IF m.pay = "bad"
    THEN [rejected |-> TRUE, reason |-> m.id, effect_applied |-> NoEffectApplied]
    ELSE [rejected |-> FALSE, reason |-> 0, effect_applied |-> ea]

\* Every EffectApplied the model may answer a step of message m with: any hint,
\* a task or none, a next effect or none (chains are finite: bounded by MaxChain).
EffectAppliedAnswers(m) ==
    { [task |-> t, render_hint |-> h, next_effect |-> n] :
        t \in {None} \cup (IF Len(spawned) < MaxTasks
                            THEN {Some([id |-> m.id, step |-> m.step])} ELSE {}),
        h \in ModelChanged,
        n \in {None} \cup (IF m.step < MaxChain
                            THEN {Some(Effect(m.id, m.step + 1, m.from))} ELSE {}) }

\* A hint for which every value asks for rendering, the default one included.
should_render_model_always(h) == TRUE

\* ModelRenderHint::should_render_model for ModelChanged.
should_render_model(h) == h = "MaybeChanged"

\* Every answer of ModelRender::render_model: no intent, or an observed intent.
RenderAnswers ==
    {None} \cup (IF next_id <= MaxSends
                 THEN {Some(Intent(next_id, p, PortSender)) : p \in {"ok", "bad"}}
                 ELSE {})

\* Model::apply_effect: effects are never rejected; the model answers with ea.
apply_effect(m, ea) == [rejected |-> FALSE, reason |-> 0, effect_applied |-> ea]

\* A spawn that returns without handing the task to the executor.
spawn_task_dropping(executor, task) == executor

\* TaskContext::spawn_task: the task goes to the executor's spawn_task, as it
\* is (`task.into()` is the conversion of a type into itself), together with a
\* clone of the context.  `executor` is the sequence of the tasks it was handed.
spawn_task(executor, task) == Append(executor, task)

\* A match that takes a rejected intent for an accepted one.
handle_message_accepting(m, ea) ==
    [rejected |-> FALSE, reason |-> 0, effect_applied |-> ea]

\* ------------------------------------------- process_message (processing.rs)
\* The match on the message at the head of the loop body: an intent goes to
\* handle_intent, whose rejection returns at once; an effect to apply_effect.
handle_message(m, ea) ==
    IF m.kind = "Intent" THEN handle_intent(m, ea) ELSE apply_effect(m, ea)

\* A flag that counts an observed intent only if the channel took it.
step_progress_if_sent(prog, ea, observed, sent) ==
    prog \/ IsSome(ea.task) \/ (IsSome(observed) /\ sent)

\* A flag that also counts a next effect as progress.
step_progress_by_chain(prog, ea, observed, sent) ==
    prog \/ IsSome(ea.task) \/ IsSome(observed) \/ IsSome(ea.next_effect)

\* `progressing` after one pass through the loop body: set when the step's task
\* was spawned, and when render_model observed an intent and submit_intent()
\* returned (`sent`: whether the channel took the message; the code does not ask).
step_progress(prog, ea, observed, sent) == prog \/ IsSome(ea.task) \/ IsSome(observed)

\* A loop end that leaves process_message with the next effect still pending, so
\* that the consume loop dequeues before the chain is done.
next_iteration_deferring(next_effect) ==
    [break |-> TRUE, message |-> next_effect]

\* A loop end that breaks without looking at the next effect.
next_iteration_dropping(next_effect) ==
    [break |-> TRUE, message |-> None]

\* A loop end with a bound of its own: it breaks after the second pass although
\* a next effect is pending.
next_iteration_capped(next_effect) ==
    [break |-> ~IsSome(next_effect) \/ Unwrap(next_effect).step >= 1,
     message |-> IF IsSome(next_effect) /\ Unwrap(next_effect).step >= 1
                 THEN None ELSE next_effect]

\* The end of the loop body: a next effect becomes the message of the next pass,
\* without leaving process_message; without one the loop breaks.
next_iteration(next_effect) ==
    [break |-> ~IsSome(next_effect), message |-> next_effect]

\* The value process_message returns after its loop.
message_processed(prog) ==
    IF prog THEN Outcome("Progressing", 0) ELSE Outcome("NoProgress", 0)

\* A match that polls the channel after Progressing as it does after NoProgress.
match_processed_polling(out) ==
    CASE out.kind = "IntentRejected" ->
            [pc |-> "stopped", result |-> Some(Outcome("IntentRejected", out.reason))]
      [] out.kind = "Progressing" -> [pc |-> "try_next", result |-> None]
      [] out.kind = "NoProgress" -> [pc |-> "try_next", result |-> None]

\* A match that discards a rejection and goes on with the next message.
match_processed_discarding(out) ==
    CASE out.kind = "IntentRejected" -> [pc |-> "top", result |-> None]
      [] out.kind = "Progressing" -> [pc |-> "top", result |-> None]
      [] out.kind = "NoProgress" -> [pc |-> "try_next", result |-> None]

\* ------------------------------------------ consume_messages (processing.rs)
\* The match on process_message's outcome: where the loop goes next and what it
\* returns, if it returns.
match_processed(out) ==
    CASE out.kind = "IntentRejected" ->
            [pc |-> "stopped", result |-> Some(Outcome("IntentRejected", out.reason))]
      [] out.kind = "Progressing" -> [pc |-> "top", result |-> None]
      [] out.kind = "NoProgress" -> [pc |-> "try_next", result |-> None]

\* process_message is entered with the message: its locals are initialised.
EnterProcess(m, via) ==
    /\ pc' = "process"
    /\ message' = Some(m)
    /\ progressing' = FALSE
    /\ processed' = Append(processed, m.id)
    /\ inv' = NewInvocation(m, via)

\* A loop head that awaits the channel although a message is buffered, and keeps
\* the buffered message across the await.
TakeNextMessage_awaiting ==
    /\ pc = "top"
    /\ IsSome(next_message)
    /\ queue # <<>>
    /\ LET r == next_message_rx
       IN  /\ queue' = r.queue
           /\ parked_queue' = r.parked_queue
           /\ dequeued' = Append(dequeued, r.msg.id)
           /\ EnterProcess(r.msg, "next")
    /\ UNCHANGED <<capacity, is_open, next_message, hist_send, result, model, tasks, spawned>>
    /\ UNCHANGED <<loop_vars, hint_vars, restart_vars>>

\* A loop head that reads the buffered message without taking it out.
TakeNextMessage_keeping ==
    /\ pc = "top"
    /\ IsSome(next_message)
    /\ EnterProcess(Unwrap(next_message), "try_next")
    /\ UNCHANGED <<chan_vars, hist_send, next_message, result, model, tasks, spawned,
                   dequeued>>
    /\ UNCHANGED <<loop_vars, hint_vars, restart_vars>>

\* `if let Some(next_message) = next_message.take()`: the buffered message is
\* processed and the buffer is left empty.
TakeNextMessage ==
    /\ pc = "top"
    /\ IsSome(next_message)
    /\ next_message' = None
    /\ EnterProcess(Unwrap(next_message), "try_next")
    /\ UNCHANGED <<chan_vars, hist_send, result, model, tasks, spawned, dequeued>>
    /\ UNCHANGED <<loop_vars, hint_vars, restart_vars>>

\* A receive that reports a closed channel as soon as it is closed, whatever is
\* still queued.
AwaitMessage_closed_first ==
    /\ pc = "top"
    /\ ~IsSome(next_message)
    /\ queue # <<>>
    /\ IF is_open
       THEN LET r == next_message_rx
            IN  /\ queue' = r.queue
                /\ parked_queue' = r.parked_queue
                /\ dequeued' = Append(dequeued, r.msg.id)
                /\ EnterProcess(r.msg, "next")
                /\ UNCHANGED result
       ELSE /\ pc' = "stopped"
            /\ result' = Some(Outcome("ChannelClosed", 0))
            /\ UNCHANGED <<queue, parked_queue, dequeued, message, progressing,
                           processed, inv>>
    /\ UNCHANGED <<capacity, is_open, next_message, hist_send, model, tasks, spawned>>
    /\ UNCHANGED <<loop_vars, hint_vars, restart_vars>>

\* `message_rx.next().await` with a message in the channel.
AwaitMessage ==
    /\ pc = "top"
    /\ ~IsSome(next_message)
    /\ queue # <<>>
    /\ LET r == next_message_rx
       IN  /\ queue' = r.queue
           /\ parked_queue' = r.parked_queue
           /\ dequeued' = Append(dequeued, r.msg.id)
           /\ EnterProcess(r.msg, "next")
    /\ UNCHANGED <<capacity, is_open, next_message, hist_send, result, model, tasks, spawned>>
    /\ UNCHANGED <<loop_vars, hint_vars, restart_vars>>

\* A receive that keeps waiting on a closed and drained channel.
AwaitClosed_waiting ==
    /\ pc = "top"
    /\ ~IsSome(next_message)
    /\ queue = <<>>
    /\ ~is_open
    /\ FALSE
    /\ UNCHANGED vars

\* A loop head that polls the channel instead of awaiting it: on an empty open
\* channel it stops as idle.
AwaitClosed_polling ==
    /\ pc = "top"
    /\ ~IsSome(next_message)
    /\ queue = <<>>
    /\ pc' = "stopped"
    /\ result' = IF is_open THEN Some(Outcome("NoProgress", 0))
                 ELSE Some(Outcome("ChannelClosed", 0))
    /\ UNCHANGED <<chan_vars, hist_send, message, next_message,
                   progressing, model, tasks, spawned, dequeued, processed, inv>>
    /\ UNCHANGED <<loop_vars, hint_vars, restart_vars>>

\* `message_rx.next().await` on a closed and drained channel: ChannelClosed.
\* (On an open, empty channel the loop is suspended: no step.)
AwaitClosed ==
    /\ pc = "top"
    /\ ~IsSome(next_message)
    /\ queue = <<>>
    /\ ~is_open
    /\ pc' = "stopped"
    /\ result' = Some(Outcome("ChannelClosed", 0))
    /\ UNCHANGED <<chan_vars, hist_send, message, next_message,
                   progressing, model, tasks, spawned, dequeued, processed, inv>>
    /\ UNCHANGED <<loop_vars, hint_vars, restart_vars>>

\* A loop body that handles the intent render_model returned at once, as the
\* next message of the same invocation, instead of submitting it.
ProcessStep_immediate ==
    /\ pc = "process"
    /\ LET m == Unwrap(message)
       IN  \E ans \in EffectAppliedAnswers(m) :
             LET h == handle_message(m, ans)
                 ea == h.effect_applied
                 render == should_render_model(ea.render_hint)
             IN  IF h.rejected
                 THEN LET out == Outcome("IntentRejected", h.reason)
                          nx == match_processed(out)
                      IN  /\ pc' = nx.pc
                          /\ result' = nx.result
                          /\ message' = None
                          /\ inv' = [inv EXCEPT !.handles = @ + 1, !.outcome = out]
                          /\ UNCHANGED <<queue, parked_queue, hist_send, progressing,
                                         model, tasks, spawned>>
                 ELSE \E obs \in (IF render THEN RenderAnswers ELSE {None}) :
                      LET prog == step_progress(progressing, ea, obs, FALSE)
                          out == message_processed(prog)
                          nx == match_processed(out)
                          it == next_iteration(ea.next_effect)
                          done == it.break /\ ~IsSome(obs)
                      IN  /\ model' = Append(model, [kind |-> m.kind, id |-> m.id,
                                                     step |-> m.step])
                          /\ spawned' = IF IsSome(ea.task)
                                        THEN Append(spawned, Unwrap(ea.task)) ELSE spawned
                          /\ tasks' = IF IsSome(ea.task)
                                      THEN tasks \cup {Unwrap(ea.task)} ELSE tasks
                          /\ next_id' = IF IsSome(obs) THEN next_id + 1 ELSE next_id
                          /\ UNCHANGED <<queue, parked_queue, accepted, dropped>>
                          /\ progressing' = prog
                          /\ message' = IF IsSome(obs) THEN obs
                                        ELSE IF done THEN None ELSE it.message
                          /\ pc' = IF done THEN nx.pc ELSE "process"
                          /\ result' = IF done THEN nx.result ELSE result
                          /\ inv' = [inv EXCEPT
                                !.handles = IF m.kind = "Intent" THEN @ + 1 ELSE @,
                                !.applies = IF m.kind = "Effect" THEN @ + 1 ELSE @,
                                !.spawns = IF IsSome(ea.task) THEN @ + 1 ELSE @,
                                !.renders = IF render THEN @ + 1 ELSE @,
                                !.observed = IF IsSome(obs) THEN @ + 1 ELSE @,
                                !.outcome = IF done THEN out ELSE @]
    /\ UNCHANGED <<capacity, is_open, next_message, dequeued, processed>>
    /\ UNCHANGED <<loop_vars, hint_vars, restart_vars>>

\* One pass through the body of process_message's loop: handle the intent or
\* apply the effect (a rejection returns at once), spawn the returned task,
\* render if this step's hint says so and submit an observed intent, then either
\* continue with the next effect or return the outcome to consume_messages,
\* whose match decides how the loop goes on.
ProcessStep ==
    /\ pc = "process"
    /\ LET m == Unwrap(message)
       IN  \E ans \in EffectAppliedAnswers(m) :
             LET h == handle_message(m, ans)
                 ea == h.effect_applied
                 render == should_render_model(ea.render_hint)
             IN  IF h.rejected
                 THEN LET out == Outcome("IntentRejected", h.reason)
                          nx == match_processed(out)
                      IN  /\ pc' = nx.pc
                          /\ result' = nx.result
                          /\ message' = None
                          /\ inv' = [inv EXCEPT !.handles = @ + 1, !.outcome = out]
                          /\ UNCHANGED <<queue, parked_queue, hist_send, progressing,
                                         model, tasks, spawned>>
                 ELSE \E obs \in (IF render THEN RenderAnswers ELSE {None}) :
                      LET r == IF IsSome(obs) THEN submit_intent(Unwrap(obs))
                               ELSE [queue |-> queue, parked_queue |-> parked_queue,
                                     sent |-> FALSE, why |-> "none"]
                          prog == step_progress(progressing, ea, obs, r.sent)
                          out == message_processed(prog)
                          nx == match_processed(out)
                          it == next_iteration(ea.next_effect)
                          done == it.break
                      IN  /\ model' = Append(model, [kind |-> m.kind, id |-> m.id,
                                                     step |-> m.step])
                          /\ spawned' = IF IsSome(ea.task)
                                        THEN spawn_task(spawned, Unwrap(ea.task)) ELSE spawned
                          /\ tasks' = IF IsSome(ea.task)
                                      THEN tasks \cup {Unwrap(ea.task)} ELSE tasks
                          /\ IF IsSome(obs) THEN Enqueue(r, Unwrap(obs))
                             ELSE UNCHANGED <<queue, parked_queue, hist_send>>
                          /\ progressing' = prog
                          /\ message' = IF done THEN None ELSE it.message
                          /\ pc' = IF done THEN nx.pc ELSE "process"
                          /\ result' = IF done THEN nx.result ELSE result
                          /\ inv' = [inv EXCEPT
                                !.handles = IF m.kind = "Intent" THEN @ + 1 ELSE @,
                                !.applies = IF m.kind = "Effect" THEN @ + 1 ELSE @,
                                !.spawns = IF IsSome(ea.task) THEN @ + 1 ELSE @,
                                !.tasked = IF IsSome(ans.task) THEN @ + 1 ELSE @,
                                !.returned = IF IsSome(ans.task)
                                             THEN Append(@, Unwrap(ans.task)) ELSE @,
                                !.hinted = IF ans.render_hint # DefaultHint THEN @ + 1 ELSE @,
                                !.nexts = IF IsSome(ans.next_effect) THEN @ + 1 ELSE @,
                                !.renders = IF render THEN @ + 1 ELSE @,
                                !.rendered = IF render
                                             THEN Append(@, [step |-> m.step,
                                                             hint |-> ea.render_hint,
                                                             last |-> done])
                                             ELSE @,
                                !.acc = add(@, ans.render_hint),
                                !.observed = IF IsSome(obs) THEN @ + 1 ELSE @,
                                !.enq = IF r.sent THEN @ + 1 ELSE @,
                                !.outcome = IF done THEN out ELSE @]
    /\ UNCHANGED <<capacity, is_open, next_message, dequeued, processed>>
    /\ UNCHANGED <<loop_vars, hint_vars, restart_vars>>

\* A poll that does not tell a closed channel from an empty one: it stops as
\* idle in both cases.
TryNext_idle_on_closed ==
    /\ pc = "try_next"
    /\ IF queue # <<>>
       THEN LET r == next_message_rx
            IN  /\ queue' = r.queue
                /\ parked_queue' = r.parked_queue
                /\ dequeued' = Append(dequeued, r.msg.id)
                /\ next_message' = Some(r.msg)
                /\ pc' = "top"
                /\ UNCHANGED result
       ELSE /\ pc' = "stopped"
            /\ result' = Some(Outcome("NoProgress", 0))
            /\ UNCHANGED <<queue, parked_queue, dequeued, next_message>>
    /\ UNCHANGED <<capacity, is_open, hist_send, message, progressing, model,
                   tasks, spawned, processed, inv>>
    /\ UNCHANGED <<loop_vars, hint_vars, restart_vars>>

\* A loop that stops as idle after NoProgress without polling the channel (as
\* message_loop does once all tasks have finished).
TryNext_without_poll ==
    /\ pc = "try_next"
    /\ pc' = "stopped"
    /\ result' = Some(Outcome("NoProgress", 0))
    /\ UNCHANGED <<queue, parked_queue, dequeued, next_message>>
    /\ UNCHANGED <<capacity, is_open, hist_send, message, progressing, model,
                   tasks, spawned, processed, inv>>
    /\ UNCHANGED <<loop_vars, hint_vars, restart_vars>>

\* `message_rx.try_next()` after NoProgress: a message is buffered as
\* next_message, a closed and drained channel stops the loop with ChannelClosed,
\* an empty open channel stops it with NoProgress.
TryNext ==
    /\ pc = "try_next"
    /\ IF queue # <<>>
       THEN LET r == next_message_rx
            IN  /\ queue' = r.queue
                /\ parked_queue' = r.parked_queue
                /\ dequeued' = Append(dequeued, r.msg.id)
                /\ next_message' = Some(r.msg)
                /\ pc' = "top"
                /\ UNCHANGED result
       ELSE /\ pc' = "stopped"
            /\ result' = IF is_open THEN Some(Outcome("NoProgress", 0))
                         ELSE Some(Outcome("ChannelClosed", 0))
            /\ UNCHANGED <<queue, parked_queue, dequeued, next_message>>
    /\ UNCHANGED <<capacity, is_open, hist_send, message, progressing, model,
                   tasks, spawned, processed, inv>>
    /\ UNCHANGED <<loop_vars, hint_vars, restart_vars>>

\* ------------------------------------------------------------- producers
\* The messages a producer may create now.
NewMessages(from) ==
    IF next_id <= MaxSends
    THEN {Effect(next_id, 0, from)} \cup {Intent(next_id, p, from) : p \in {"ok", "bad"}}
    ELSE {}

\* An external producer sends a message through its MessageSender.
ExtSend ==
    /\ pc # "stopped"
    /\ \E m \in NewMessages(ExtSender) : Enqueue(send_message(ExtSender, m), m)
    /\ UNCHANGED <<capacity, is_open, pc, message, next_message, progressing,
                   result, model, tasks, spawned, dequeued, processed, inv>>
    /\ UNCHANGED <<loop_vars, hint_vars, restart_vars>>

\* A running task submits a message through the port of its TaskContext clone.
TaskSend ==
    /\ pc # "stopped"
    /\ \E t \in tasks : \E m \in NewMessages(TaskSender(t)) :
          Enqueue(send_message(TaskSender(t), m), m)
    /\ UNCHANGED <<capacity, is_open, pc, message, next_message, progressing,
                   result, model, tasks, spawned, dequeued, processed, inv>>
    /\ UNCHANGED <<loop_vars, hint_vars, restart_vars>>

\* A producer closes the channel (Sender::close_channel); queued messages stay.
CloseChannel ==
    /\ pc # "stopped"
    /\ is_open
    /\ is_open' = FALSE
    /\ UNCHANGED <<capacity, queue, parked_queue, hist_send, pc, message, next_message,
                   progressing, result, model, tasks, spawned,
                   dequeued, processed, inv>>
    /\ UNCHANGED <<loop_vars, hint_vars, restart_vars>>

Next ==
    \/ TakeNextMessage
    \/ AwaitMessage
    \/ AwaitClosed
    \/ ProcessStep
    \/ TryNext
    \/ ExtSend
    \/ TaskSend
    \/ CloseChannel

Spec == Init /\ [][Next]_vars

\* The steps of consume_messages itself.  The loop is a future that its executor
\* polls whenever it can go on: between two awaits it runs to the next await
\* without yielding, and a message in the channel or the closing of the channel
\* wakes it up at `message_rx.next().await`.  Producers owe nothing.
Consume ==
    \/ TakeNextMessage
    \/ AwaitMessage
    \/ AwaitClosed
    \/ ProcessStep
    \/ TryNext

FairSpec == Spec /\ WF_vars(Consume)

\* After IntentRejected the embedder has control ("Rejecting an intent will
\* temporarily handle control to the outer context ... before continuing with
\* the message loop"): it may send the rejected intent again, as it is, through
\* its own sender, and it calls consume_messages again with the same receiver,
\* context and model.  The new call starts with an empty next_message.
Restart ==
    /\ pc = "stopped"
    /\ IsSome(result)
    /\ Unwrap(result).kind = "IntentRejected"
    /\ Len(rejections) < MaxRestarts
    /\ rejections' = Append(rejections, [intent |-> Unwrap(inv.msg),
                                         reason |-> Unwrap(result).reason,
                                         model |-> model,
                                         queue |-> queue,
                                         at |-> Len(processed)])
    /\ \E again \in BOOLEAN :
          IF again
          THEN LET m == [Unwrap(inv.msg) EXCEPT !.from = ExtSender]
                   r == send_message(ExtSender, m)
               IN  /\ queue' = r.queue
                   /\ parked_queue' = r.parked_queue
                   /\ accepted' = IF r.sent THEN Append(accepted, m.id) ELSE accepted
                   /\ dropped' = IF r.sent THEN dropped
                                 ELSE dropped \cup {[id |-> m.id, why |-> r.why,
                                                     from |-> m.from,
                                                     intact |-> (r.queue = queue),
                                                     qlen |-> Len(queue)]}
          ELSE UNCHANGED <<queue, parked_queue, accepted, dropped>>
    /\ pc' = "top"
    /\ result' = None
    /\ next_message' = None
    /\ UNCHANGED <<capacity, is_open, next_id, message, progressing, model, tasks,
                   spawned, dequeued, processed, loop_vars, hint_vars, inv>>

RestartNext ==
    \/ Next
    \/ Restart

RestartSpec == Init /\ [][RestartNext]_vars

\* ------------------------------------------ a model whose chain never ends
\* Nothing in Model::apply_effect keeps a model from returning a next effect on
\* every application.  The model of this section has two such effects, "spin"
\* with step 0 and with step 1: applying one leaves the model's state as it is,
\* asks for no rendering, returns no task and returns the other one as
\* next_effect.
SpinEffect(id, step, from) ==
    [kind |-> "Effect", id |-> id, step |-> step, pay |-> "spin", from |-> from]

IsSpin(m) == m.pay = "spin"

\* Model::apply_effect of the spinning model.
SpinAnswer(m) ==
    [task |-> None, render_hint |-> DefaultHint,
     next_effect |-> Some(SpinEffect(m.id, 1 - m.step, m.from))]

\* An external producer sends a spinning effect.
SpinSend ==
    /\ pc # "stopped"
    /\ next_id <= MaxSends
    /\ LET m == SpinEffect(next_id, 0, ExtSender)
       IN  Enqueue(send_message(ExtSender, m), m)
    /\ UNCHANGED <<capacity, is_open, pc, message, next_message, progressing,
                   result, model, tasks, spawned, dequeued, processed, inv>>
    /\ UNCHANGED <<loop_vars, hint_vars, restart_vars>>

\* One pass of the loop body of process_message on any other message.
ProcessStepFinite ==
    /\ pc = "process"
    /\ ~IsSpin(Unwrap(message))
    /\ ProcessStep

\* One pass of the loop body of process_message on a spinning effect: the
\* effect is applied, there is no task to spawn and nothing to render, and the
\* end of the body decides by next_effect alone whether the loop goes on.  The
\* history counts the passes up to MaxSpin.
ProcessStepSpinning ==
    /\ pc = "process"
    /\ IsSpin(Unwrap(message))
    /\ LET m == Unwrap(message)
           h == handle_message(m, SpinAnswer(m))
           ea == h.effect_applied
           prog == step_progress(progressing, ea, None, FALSE)
           out == message_processed(prog)
           nx == match_processed(out)
           it == next_iteration(ea.next_effect)
           done == it.break
       IN  /\ ~h.rejected
           /\ ~should_render_model(ea.render_hint)
           /\ progressing' = prog
           /\ message' = IF done THEN None ELSE it.message
           /\ pc' = IF done THEN nx.pc ELSE "process"
           /\ result' = IF done THEN nx.result ELSE result
           /\ inv' = [inv EXCEPT
                 !.applies = IF @ < MaxSpin THEN @ + 1 ELSE @,
                 !.nexts = IF @ < MaxSpin THEN @ + 1 ELSE @,
                 !.acc = add(@, ea.render_hint),
                 !.outcome = IF done THEN out ELSE @]
    /\ UNCHANGED <<chan_vars, hist_send, next_message, model, tasks, spawned,
                   dequeued, processed>>
    /\ UNCHANGED <<loop_vars, hint_vars, restart_vars>>

SpinNext ==
    \/ TakeNextMessage
    \/ AwaitMessage
    \/ AwaitClosed
    \/ ProcessStepFinite
    \/ ProcessStepSpinning
    \/ TryNext
    \/ ExtSend
    \/ SpinSend
    \/ TaskSend
    \/ CloseChannel

\* The steps of consume_messages with the spinning model.
ConsumeSpin ==
    \/ TakeNextMessage
    \/ AwaitMessage
    \/ AwaitClosed
    \/ ProcessStepFinite
    \/ ProcessStepSpinning
    \/ TryNext

\* consume_messages runs whenever it can: it is a future that is polled until
\* it is ready, and process_message has no await.
SpinSpec == Init /\ [][SpinNext]_vars /\ WF_vars(ConsumeSpin)

\* ------------------------------- the older loop: message_loop (messaging.rs)
\* messaging.rs also holds the loop processing.rs replaced: message_loop, which
\* drives handle_next_message over a State (state.rs) and asks its
\* TaskDispatcher whether all tasks have finished before it stops as idle.  Here
\* `pc` is "top" | "handle" | "idle_check" | "stopped", `tasks` holds the
\* dispatched tasks that have not finished, and PortSender is the loop's own
\* message_tx.

\* `impl Add for StateChanged`.
StateChanged_add(lhs, rhs) ==
    IF lhs = "Unchanged" /\ rhs = "Unchanged" THEN "Unchanged" ELSE "MaybeChanged"

\* Action<Effect, Task> as messaging.rs matches on it.
ApplyEffect(effect) == [kind |-> "ApplyEffect", effect |-> Some(effect), task |-> None]
DispatchTask(task) == [kind |-> "DispatchTask", effect |-> None, task |-> Some(task)]

\* Every StateUpdated that State::update may answer message m with.
StateUpdatedAnswers(m) ==
    { [changed |-> c, next_action |-> a] :
        c \in ModelChanged,
        a \in {None}
              \cup (IF m.step < MaxChain
                    THEN {Some(ApplyEffect(Effect(m.id, m.step + 1, m.from)))} ELSE {})
              \cup (IF Len(spawned) < MaxTasks
                    THEN {Some(DispatchTask([id |-> m.id, step |-> m.step]))} ELSE {}) }

\* The StateUpdated of one pass: a rejected intent is discarded (no next action),
\* an accepted one leaves the state unchanged, an effect goes to State::update.
state_updated(m, ans) ==
    IF m.kind = "Intent"
    THEN [changed |-> "Unchanged",
          next_action |-> IF m.pay = "bad" THEN None ELSE ans.next_action]
    ELSE ans

\* TaskDispatcher::all_tasks_finished: no dispatched task is outstanding.
all_tasks_finished == tasks = {}

MessageLoopInit ==
    /\ capacity \in 0..MaxCapacity
    /\ queue \in {<<>>, <<Effect(0, 0, ExtSender)>>}
    /\ is_open = TRUE
    /\ parked_queue = IF Len(queue) > capacity THEN <<ExtSender>> ELSE <<>>
    /\ pc = "top"
    /\ message = None
    /\ next_message = None
    /\ progressing = FALSE
    /\ result = None
    /\ model = <<>>
    /\ tasks = {}
    /\ spawned = <<>>
    /\ next_id = 1
    /\ accepted = [i \in 1..Len(queue) |-> queue[i].id]
    /\ dropped = {}
    /\ dequeued = <<>>
    /\ processed = <<>>
    /\ state_changed = "Unchanged"
    /\ number_of_next_actions = 0
    /\ hints = <<>>
    /\ sum = [n |-> 0, value |-> DefaultHint]
    /\ rejections = <<>>
    /\ inv = [msg |-> None, via |-> "none", handles |-> 0, applies |-> 0, spawns |-> 0, renders |-> 0,
              observed |-> 0, enq |-> 0, nexts |-> 0, hinted |-> 0, tasked |-> 0,
              rendered |-> <<>>, acc |-> DefaultHint,
              returned |-> <<>>, spawned_before |-> <<>>,
              model_before |-> <<>>, outcome |-> Outcome("none", 0)]

\* `while let Some(next_message) = message_rx.next().await` with a message in
\* the channel: handle_next_message is entered and its locals are initialised.
LoopAwaitMessage ==
    /\ pc = "top"
    /\ queue # <<>>
    /\ LET r == next_message_rx
       IN  /\ queue' = r.queue
           /\ parked_queue' = r.parked_queue
           /\ dequeued' = Append(dequeued, r.msg.id)
           /\ processed' = Append(processed, r.msg.id)
           /\ message' = Some(r.msg)
           /\ inv' = NewInvocation(r.msg, "next")
    /\ pc' = "handle"
    /\ state_changed' = "Unchanged"
    /\ number_of_next_actions' = 0
    /\ UNCHANGED <<capacity, is_open, next_message, progressing, hist_send, result,
                   model, tasks, spawned>>
    /\ UNCHANGED <<hint_vars, restart_vars>>

\* next().await on a closed and drained channel: the `while let` ends.
LoopAwaitClosed ==
    /\ pc = "top"
    /\ queue = <<>>
    /\ ~is_open
    /\ pc' = "stopped"
    /\ result' = Some(Outcome("ChannelClosed", 0))
    /\ UNCHANGED <<chan_vars, hist_send, message, next_message, progressing, model,
                   tasks, spawned, dequeued, processed, loop_vars, inv>>
    /\ UNCHANGED <<hint_vars, restart_vars>>

\* One pass through handle_next_message's loop: the state is updated; an
\* ApplyEffect action continues with the effect; otherwise a task is dispatched
\* if that is the action, the state is rendered if it may have changed or any
\* next action was seen, an observed intent is sent, and the function returns
\* Progressing if it sent or dispatched anything, NoProgress if not.
HandleNextMessage ==
    /\ pc = "handle"
    /\ LET m == Unwrap(message)
       IN  \E ans \in StateUpdatedAnswers(m) :
             LET su == state_updated(m, ans)
                 changed == StateChanged_add(state_changed, su.changed)
                 n == IF IsSome(su.next_action) THEN number_of_next_actions + 1
                      ELSE number_of_next_actions
                 applied == IF m.kind = "Intent" /\ m.pay = "bad" THEN model
                            ELSE Append(model, [kind |-> m.kind, id |-> m.id,
                                                step |-> m.step])
             IN  IF IsSome(su.next_action) /\ Unwrap(su.next_action).kind = "ApplyEffect"
                 THEN /\ message' = Unwrap(su.next_action).effect
                      /\ state_changed' = changed
                      /\ number_of_next_actions' = n
                      /\ model' = applied
                      /\ inv' = [inv EXCEPT !.nexts = @ + 1]
                      /\ UNCHANGED <<queue, parked_queue, hist_send, pc, tasks, spawned>>
                 ELSE LET dispatched == IsSome(su.next_action)
                          render == changed = "MaybeChanged" \/ n > 0
                      IN  \E obs \in (IF render THEN RenderAnswers ELSE {None}) :
                            LET handled == IF IsSome(obs) \/ dispatched
                                           THEN Outcome("Progressing", 0)
                                           ELSE Outcome("NoProgress", 0)
                            IN  /\ model' = applied
                                /\ spawned' = IF dispatched
                                              THEN Append(spawned, Unwrap(Unwrap(su.next_action).task))
                                              ELSE spawned
                                /\ tasks' = IF dispatched
                                            THEN tasks \cup {Unwrap(Unwrap(su.next_action).task)}
                                            ELSE tasks
                                /\ IF IsSome(obs)
                                   THEN Enqueue(send_message(PortSender, Unwrap(obs)), Unwrap(obs))
                                   ELSE UNCHANGED <<queue, parked_queue, hist_send>>
                                /\ message' = None
                                /\ state_changed' = "Unchanged"
                                /\ number_of_next_actions' = 0
                                /\ pc' = IF handled.kind = "Progressing" THEN "top"
                                         ELSE "idle_check"
                                /\ inv' = [inv EXCEPT
                                      !.spawns = IF dispatched THEN @ + 1 ELSE @,
                                      !.renders = IF render THEN @ + 1 ELSE @,
                                      !.observed = IF IsSome(obs) THEN @ + 1 ELSE @,
                                      !.outcome = handled]
    /\ UNCHANGED <<capacity, is_open, next_message, progressing, result, dequeued,
                   processed>>
    /\ UNCHANGED <<hint_vars, restart_vars>>

\* MessageHandled::NoProgress in message_loop: the loop breaks if the dispatcher
\* says that all tasks have finished, and awaits the next message if not.
IdleCheck ==
    /\ pc = "idle_check"
    /\ IF all_tasks_finished
       THEN pc' = "stopped" /\ result' = Some(Outcome("NoProgress", 0))
       ELSE pc' = "top" /\ UNCHANGED result
    /\ UNCHANGED <<chan_vars, hist_send, message, next_message, progressing, model,
                   tasks, spawned, dequeued, processed, loop_vars, inv>>
    /\ UNCHANGED <<hint_vars, restart_vars>>

\* A dispatched task finishes; what it sent stays in the channel.
TaskFinish ==
    /\ pc # "stopped"
    /\ \E t \in tasks : tasks' = tasks \ {t}
    /\ UNCHANGED <<chan_vars, hist_send, pc, message, next_message, progressing,
                   result, model, spawned, dequeued, processed, loop_vars, inv>>
    /\ UNCHANGED <<hint_vars, restart_vars>>

MessageLoopNext ==
    \/ LoopAwaitMessage
    \/ LoopAwaitClosed
    \/ HandleNextMessage
    \/ IdleCheck
    \/ TaskFinish
    \/ ExtSend
    \/ TaskSend
    \/ CloseChannel

SpecMessageLoop == MessageLoopInit /\ [][MessageLoopNext]_vars

\* --------------------------------------------- render hints on their own
\* The sum of a sequence of hints, as `+=` computes it over the steps of a chain
\* (AddAssign is `*self = *self + other` for ModelChanged and for StateChanged).
HintSeqs == UNION {[1..n -> ModelChanged] : n \in 0..MaxHints}

HintsInit ==
    /\ hints \in HintSeqs
    /\ sum = [n |-> 0, value |-> DefaultHint]
    /\ rejections = <<>>
    /\ state_changed = "Unchanged"
    /\ number_of_next_actions = 0
    /\ capacity = 0
    /\ queue = <<>>
    /\ is_open = TRUE
    /\ parked_queue = <<>>
    /\ pc = "top"
    /\ message = None
    /\ next_message = None
    /\ progressing = FALSE
    /\ result = None
    /\ model = <<>>
    /\ tasks = {}
    /\ spawned = <<>>
    /\ next_id = 1
    /\ accepted = <<>>
    /\ dropped = {}
    /\ dequeued = <<>>
    /\ processed = <<>>
    /\ inv = [msg |-> None, via |-> "none", handles |-> 0, applies |-> 0, spawns |-> 0, renders |-> 0,
              observed |-> 0, enq |-> 0, nexts |-> 0, hinted |-> 0, tasked |-> 0,
              rendered |-> <<>>, acc |-> DefaultHint,
              returned |-> <<>>, spawned_before |-> <<>>,
              model_before |-> <<>>, outcome |-> Outcome("none", 0)]

\* `sum += hint` with the next hint, as a ModelChanged (model.rs) and as a
\* StateChanged (state.rs, `state_changed += next_state_changed`).
AddAssign ==
    /\ sum.n < Len(hints)
    /\ sum' = [n |-> sum.n + 1, value |-> add(sum.value, hints[sum.n + 1])]
    /\ state_changed' = StateChanged_add(state_changed, hints[sum.n + 1])
    /\ UNCHANGED <<chan_vars, hist_send, pc, message, next_message, progressing, result,
                   model, tasks, spawned, dequeued, processed, number_of_next_actions,
                   hints, rejections, inv>>

HintsNext == AddAssign

SpecHints == HintsInit /\ [][HintsNext]_vars

\* ================================================================ claims
Returned == inv.outcome.kind \in {"Progressing", "NoProgress"}
Rejected == inv.outcome.kind = "IntentRejected"
InvMsg == Unwrap(inv.msg)
IsPrefix(a, b) == Len(a) <= Len(b) /\ \A i \in 1..Len(a) : a[i] = b[i]
\* The entries the current/last invocation added to the model.
InvApplied == SubSeq(model, Len(inv.model_before) + 1, Len(model))

\* C1 (pure gate): an invocation of process_message on an intent that
\* handle_intent rejects ends at once with IntentRejected carrying the reason
\* handle_intent gave (here the intent's id), and in that invocation apply_effect
\* was not called, no task was spawned, render_model was not called, nothing
\* was submitted to the channel and the model is as it was.
C1_PureGate ==
    /\ (IsSome(inv.msg) /\ InvMsg.kind = "Intent" /\ InvMsg.pay = "bad"
            /\ inv.outcome.kind # "running")
         => inv.outcome = Outcome("IntentRejected", InvMsg.id)
    /\ Rejected =>
         /\ InvMsg.kind = "Intent" /\ InvMsg.pay = "bad"
         /\ inv.handles = 1
         /\ inv.applies = 0 /\ inv.spawns = 0 /\ inv.renders = 0
         /\ inv.observed = 0 /\ inv.enq = 0
         /\ model = inv.model_before
         /\ \A i \in 1..Len(spawned) : spawned[i].id # InvMsg.id
         /\ \A i \in 1..Len(model) : model[i].id # InvMsg.id

\* A rejected intent while another message waits in the channel.
C1_Witness == Rejected /\ queue # <<>>

\* C2 (rejection is terminal): once process_message yields IntentRejected(reason)
\* for a dequeued intent, whoever sent it, consume_messages has returned
\* IntentRejected with that reason, the rejected message is the last one dequeued
\* and the last one processed, and every earlier processed message was not
\* rejected (no rejection was passed over).
C2_RejectionStopsLoop ==
    /\ Rejected =>
         /\ pc = "stopped"
         /\ result = Some(Outcome("IntentRejected", inv.outcome.reason))
         /\ processed = dequeued
         /\ processed[Len(processed)] = InvMsg.id
         /\ ~IsSome(next_message)
    /\ (IsSome(result) /\ Unwrap(result).kind = "IntentRejected") => Rejected

\* An intent returned by render was dequeued and rejected, and stopped the loop.
C2_Witness == Rejected /\ InvMsg.from = PortSender /\ pc = "stopped"

\* C3 (FIFO): the receiver hands messages out in the order the channel accepted
\* them, and process_message is entered in that same order, whatever the
\* producers (external sender, tasks, render feedback) and the consumer did in
\* between: `dequeued` and `processed` are prefixes of `accepted`, and the queue
\* is the rest of `accepted`, in order.
C3_Fifo ==
    /\ IsPrefix(dequeued, accepted)
    /\ IsPrefix(processed, dequeued)
    /\ Len(queue) = Len(accepted) - Len(dequeued)
    /\ \A i \in 1..Len(queue) : queue[i].id = accepted[Len(dequeued) + i]

\* Two messages of different senders were accepted and both processed, the second
\* having been accepted before the first one's processing was over.
C3_Witness ==
    /\ Len(processed) >= 2
    /\ Len(accepted) >= 2
    /\ pc = "process"
    /\ InvMsg.id = accepted[2]
    /\ InvMsg.from # PortSender

\* C4 (chain atomicity): the effects of one next_effect chain are applied one
\* after the other with nothing in between (the model's log holds a chain's steps
\* consecutively and in order), while a chain runs the last dequeued message is
\* the chain's own (no dequeue since it started, whatever was enqueued
\* meanwhile), and whenever the loop is at a point where it dequeues or has
\* stopped, every next effect the model returned has been applied.
C4_ChainAtomicity ==
    /\ \A i \in 1..Len(model) :
          model[i].step > 0 =>
             /\ i > 1
             /\ model[i - 1].id = model[i].id
             /\ model[i - 1].step + 1 = model[i].step
    /\ (pc = "process" /\ Unwrap(message).step > 0) =>
          /\ dequeued[Len(dequeued)] = Unwrap(message).id
          /\ processed = dequeued
          /\ ~IsSome(next_message)
    /\ (pc # "process" /\ IsSome(inv.msg) /\ ~Rejected) =>
          /\ ~IsSome(message)
          /\ Len(InvApplied) = inv.nexts + 1

\* A chain step is about to be applied while a message that was enqueued after
\* the chain's message waits in the channel.
C4_Witness ==
    /\ pc = "process"
    /\ Unwrap(message).step > 0
    /\ queue # <<>>

\* C5 (exactly once): every dequeued message is passed to process_message once:
\* `processed` has no repetition and follows `dequeued`, lagging by at most the
\* one message that try_next() buffered in next_message and that is processed
\* next; when the loop has returned nothing dequeued is left unprocessed.
C5_ExactlyOnce ==
    /\ \A i, j \in 1..Len(processed) : i # j => processed[i] # processed[j]
    /\ IsPrefix(processed, dequeued)
    /\ IF IsSome(next_message)
       THEN /\ pc = "top"
            /\ Len(dequeued) = Len(processed) + 1
            /\ dequeued[Len(dequeued)] = Unwrap(next_message).id
       ELSE Len(dequeued) = Len(processed)
    /\ pc = "stopped" => processed = dequeued

\* The loop has returned after processing a message it got from try_next().
C5_Witness ==
    /\ pc = "stopped"
    /\ inv.via = "try_next"
    /\ Len(processed) >= 2

\* C6 (best-effort enqueue): a send on a full or closed channel drops the new
\* message and leaves the queued messages as they were; the dropped message is in
\* no queue or log of accepted messages; and a producer's send can always be
\* completed, whatever the state of the channel (it never waits).
C6_BestEffortEnqueue ==
    /\ \A d \in dropped :
          /\ d.intact
          /\ d.why \in {"full", "disconnected"}
          /\ \A i \in 1..Len(accepted) : accepted[i] # d.id
          /\ \A i \in 1..Len(queue) : queue[i].id # d.id
    /\ (pc # "stopped" /\ next_id <= MaxSends) => ENABLED ExtSend

\* A message was dropped on a full channel that held a message.
C6_Witness == \E d \in dropped : d.why = "full" /\ d.qlen > 0

\* C7 as stated (for capacities of at least 1): a channel created with capacity
\* N never holds more than N undelivered messages, so that with capacity 1 the
\* second of two enqueues without a dequeue in between is dropped.
C7_CapacityBound == capacity >= 1 => Len(queue) <= capacity

\* C7 (amended): the channel holds at most `capacity` messages plus one per
\* parked sender, each sender (the port, the external sender, one clone per
\* spawned task) being parked at most once; a send is dropped as full only if
\* the channel then holds more than `capacity` messages, its sender having used
\* its own slot; while a sender is parked the channel holds exactly `capacity`
\* messages plus one per parked sender.
C7_SlotBound ==
    /\ Len(queue) <= capacity + Len(parked_queue)
    /\ \A i, j \in 1..Len(parked_queue) : i # j => parked_queue[i] # parked_queue[j]
    /\ Len(parked_queue) <= 2 + Len(spawned)
    /\ parked_queue # <<>> => Len(queue) = capacity + Len(parked_queue)
    /\ \A d \in dropped : d.why = "full" => d.qlen > capacity

\* Capacity 1, two enqueues of one sender and no dequeue: the channel holds both.
C7_Witness ==
    /\ capacity = 1
    /\ dequeued = <<>>
    /\ Len(queue) = 2
    /\ queue[1].from = ExtSender
    /\ queue[2].from = ExtSender

C9_ProgressDecoupled ==
    (Returned /\ inv.tasked = 0 /\ inv.hinted = 0) =>
        /\ inv.outcome.kind = "NoProgress"
        /\ inv.renders = 0
        /\ Len(InvApplied) = inv.nexts + 1
        /\ \A i \in 1..Len(InvApplied) :
              InvApplied[i].id = InvMsg.id /\ InvApplied[i].step = i - 1

\* A chain of at least one next effect, no task, default hints: NoProgress.
C9_Witness ==
    /\ Returned
    /\ inv.tasked = 0
    /\ inv.hinted = 0
    /\ inv.nexts >= 1
    /\ inv.outcome.kind = "NoProgress"
    /\ Len(InvApplied) = inv.nexts + 1

\* C10 (chain length): when process_message returns for an Effect message whose
\* model returned a next effect on k applications, apply_effect was called k + 1
\* times, on the message's effect and then on each next effect in chain order;
\* for an accepted Intent, handle_intent once and apply_effect k times.
C10_ChainLength ==
    Returned =>
       /\ InvMsg.kind = "Effect" => inv.applies = inv.nexts + 1 /\ inv.handles = 0
       /\ InvMsg.kind = "Intent" => inv.applies = inv.nexts /\ inv.handles = 1
       /\ InvApplied = [i \in 1..(inv.nexts + 1) |->
                          [kind |-> IF i = 1 THEN InvMsg.kind ELSE "Effect",
                           id |-> InvMsg.id, step |-> i - 1]]

\* Scenario B: one Effect message, one next effect, two apply_effect calls.
C10_Witness ==
    /\ Returned
    /\ InvMsg.kind = "Effect"
    /\ inv.nexts = 1
    /\ inv.applies = 2

\* C11 as stated: during one process_message invocation render_model is called
\* at most once, only after the last effect of the next_effect chain has been
\* applied (never between two steps of a chain), and with the hint accumulated
\* over all steps of the chain.
C11_RenderOnceAfterChain ==
    /\ Len(inv.rendered) <= 1
    /\ \A i \in 1..Len(inv.rendered) :
          /\ inv.rendered[i].last
          /\ Returned => inv.rendered[i].hint = inv.acc

\* C12 (render is gated by the hint): every render_model call of an invocation
\* followed a step whose hint evaluates to "render" and was given that hint, one
\* call per such step; when every step returned the default hint (Unchanged)
\* render_model is not called and nothing is observed or submitted, also when a
\* next effect was applied or a task was spawned.
C12_RenderGatedByHint ==
    /\ \A i \in 1..Len(inv.rendered) : inv.rendered[i].hint = "MaybeChanged"
    /\ inv.renders = Len(inv.rendered)
    /\ inv.renders = inv.hinted
    /\ inv.hinted = 0 => (inv.rendered = <<>> /\ inv.observed = 0 /\ inv.enq = 0)

\* A chain with a next effect and a spawned task, default hints only: no render.
C12_Witness ==
    /\ Returned
    /\ inv.hinted = 0
    /\ inv.nexts >= 1
    /\ inv.spawns >= 1
    /\ inv.rendered = <<>>

C14_NoIdleStopWithTasks ==
    (IsSome(result) /\ Unwrap(result).kind = "NoProgress") => tasks = {}

\* C15 (the idle check does not lose a task's final message), for the loop that
\* calls all_tasks_finished(): when message_loop has stopped as idle (it broke
\* out after NoProgress and all_tasks_finished()), no message that a task
\* enqueued before it finished is left unprocessed in the channel.
C15_IdleCheckKeepsTaskMessage ==
    (pc = "stopped" /\ result = Some(Outcome("NoProgress", 0))) =>
        \A i \in 1..Len(queue) : queue[i].from.s # "task"

\* C16 (NoProgress transition): the loop polls the channel exactly after a
\* message yielded NoProgress, and the poll never waits.  If a message is there
\* it is taken out and buffered, the loop goes back to its head and the buffered
\* message is the next one process_message is entered with; if the channel is
\* closed and drained the loop returns ChannelClosed, not NoProgress; it returns
\* NoProgress only on an empty, open channel.
C16_NoProgressTransition ==
    /\ [](/\ pc = "try_next" =>
                /\ inv.outcome.kind = "NoProgress"
                /\ ~IsSome(message) /\ ~IsSome(next_message)
                /\ ENABLED TryNext
          /\ IsSome(next_message) => (pc = "top" /\ inv.outcome.kind = "NoProgress")
          /\ result = Some(Outcome("NoProgress", 0)) => is_open)
    /\ [][/\ (pc = "try_next" /\ pc' # "try_next") =>
               IF queue # <<>>
               THEN /\ pc' = "top"
                    /\ next_message' = Some(Head(queue))
                    /\ queue' = Tail(queue)
                    /\ result' = None
               ELSE /\ pc' = "stopped"
                    /\ result' = IF is_open THEN Some(Outcome("NoProgress", 0))
                                 ELSE Some(Outcome("ChannelClosed", 0))
           /\ (IsSome(next_message) /\ pc' # pc) =>
               /\ pc' = "process"
               /\ message' = next_message
               /\ queue' = queue]_vars

\* A message that the poll found was processed and yielded NoProgress again; the
\* next poll met the channel closed and drained: ChannelClosed.
C16_Witness ==
    /\ result = Some(Outcome("ChannelClosed", 0))
    /\ inv.outcome.kind = "NoProgress"
    /\ inv.via = "try_next"

\* C17 (Progressing transition): after a message yielded Progressing the loop is
\* back at its blocking receive with nothing buffered; it has not returned,
\* unless the channel was closed and drained (ChannelClosed).  With the channel
\* empty and open it stays there, waiting: no step of the loop is possible.  The
\* idle outcome NoProgress is only returned after a message that yielded
\* NoProgress.
C17_ProgressingTransition ==
    /\ inv.outcome.kind = "Progressing" =>
          /\ ~IsSome(next_message) /\ ~IsSome(message)
          /\ \/ pc = "top" /\ result = None
             \/ pc = "stopped" /\ result = Some(Outcome("ChannelClosed", 0))
          /\ (pc = "top" /\ queue = <<>> /\ is_open) =>
                ~(ENABLED AwaitMessage \/ ENABLED AwaitClosed \/ ENABLED TakeNextMessage
                  \/ ENABLED TryNext \/ ENABLED ProcessStep)
    /\ result = Some(Outcome("NoProgress", 0)) => inv.outcome.kind = "NoProgress"

\* The last message yielded Progressing, the channel is empty and open: the loop
\* waits at the receive.
C17_Witness ==
    /\ inv.outcome.kind = "Progressing"
    /\ pc = "top"
    /\ queue = <<>>
    /\ is_open
    /\ result = None

RECURSIVE SumRight(_)
\* The hints of a sequence added from the right end: h1 + (h2 + (... + default)).
SumRight(seq) == IF seq = <<>> THEN DefaultHint ELSE add(Head(seq), SumRight(Tail(seq)))

\* C19 (render hint algebra): on {Unchanged, MaybeChanged} the sum is
\* associative, commutative and idempotent with Unchanged as identity, for
\* ModelChanged and for StateChanged; the default hint is Unchanged and does not
\* ask for rendering (the debug assertions on the default hint hold, also for
\* the hint of EffectApplied::unchanged()); a sum with MaybeChanged on either
\* side asks for rendering.  Hence the sum over the steps taken so far asks for
\* rendering exactly if one of the hints was MaybeChanged, and does not depend
\* on the grouping of the additions; both types give the same sum.
C19_HintAlgebra ==
    /\ \A a, b, c \in ModelChanged :
          /\ add(add(a, b), c) = add(a, add(b, c))
          /\ add(a, b) = add(b, a)
          /\ add(a, a) = a
          /\ add(a, "Unchanged") = a /\ add("Unchanged", a) = a
          /\ should_render_model(add("MaybeChanged", a))
          /\ should_render_model(add(a, "MaybeChanged"))
          /\ StateChanged_add(StateChanged_add(a, b), c)
                = StateChanged_add(a, StateChanged_add(b, c))
          /\ StateChanged_add(a, b) = StateChanged_add(b, a)
          /\ StateChanged_add(a, a) = a
          /\ StateChanged_add(a, "Unchanged") = a /\ StateChanged_add("Unchanged", a) = a
    /\ DefaultHint = "Unchanged"
    /\ ~should_render_model(DefaultHint)
    /\ ~should_render_model(NoEffectApplied.render_hint)
    /\ should_render_model(sum.value) <=>
          (\E i \in 1..sum.n : hints[i] = "MaybeChanged")
    /\ sum.value = SumRight(SubSeq(hints, 1, sum.n))
    /\ state_changed = sum.value

\* Unchanged, MaybeChanged and Unchanged again have been summed up.
C19_Witness ==
    /\ sum.n = 3
    /\ SubSeq(hints, 1, 3) = <<"Unchanged", "MaybeChanged", "Unchanged">>
    /\ sum.value = "MaybeChanged"

\* The loop has not returned and cannot take a step: it is suspended.
Suspended ==
    /\ pc # "stopped"
    /\ ~(ENABLED TakeNextMessage \/ ENABLED AwaitMessage \/ ENABLED AwaitClosed
         \/ ENABLED ProcessStep \/ ENABLED TryNext)

\* C20 (cancellation safety): the loop is suspended only in
\* `message_rx.next().await`, on an empty and open channel; whenever it is at
\* that await (suspended or not) nothing is buffered in next_message, no message
\* is inside process_message, and every message the channel accepted has either
\* been processed to its end or is still in the channel.
C20_CancellationSafe ==
    /\ Suspended => (pc = "top" /\ ~IsSome(next_message) /\ queue = <<>> /\ is_open)
    /\ (pc = "top" /\ ~IsSome(next_message)) =>
          /\ ~IsSome(message)
          /\ inv.outcome.kind # "running"
          /\ processed = dequeued
          /\ accepted = dequeued \o [i \in 1..Len(queue) |-> queue[i].id]

\* The loop is suspended after it processed a message that the poll had buffered.
C20_Witness ==
    /\ Suspended
    /\ inv.via = "try_next"
    /\ Len(processed) >= 2

\* C21 (graceful shutdown): once the channel is closed the loop returns, and
\* not as idle: its outcome is ChannelClosed, unless a rejected intent still in
\* the channel ends it first with IntentRejected.  (An idle stop can only come
\* before the close.)
C21_GracefulShutdown ==
    ~is_open ~> (/\ pc = "stopped"
                 /\ IsSome(result)
                 /\ Unwrap(result).kind \in {"ChannelClosed", "IntentRejected"})

\* The loop returned ChannelClosed; a send had been refused as disconnected
\* while a message was still in the channel.
C21_Witness ==
    /\ pc = "stopped"
    /\ result = Some(Outcome("ChannelClosed", 0))
    /\ \E d \in dropped : d.why = "disconnected" /\ d.qlen > 0

\* The rejections (before the current call of consume_messages) of the intent
\* of the current/last invocation, made on the model as that invocation found it.
SameRejectedBefore ==
    {i \in 1..Len(rejections) :
        /\ IsSome(inv.msg)
        /\ rejections[i].at < Len(processed)
        /\ rejections[i].intent.id = InvMsg.id
        /\ rejections[i].intent.kind = InvMsg.kind
        /\ rejections[i].intent.pay = InvMsg.pay
        /\ rejections[i].model = inv.model_before}

\* The current/last invocation belongs to the current call of consume_messages.
InvInThisCall == \A i \in 1..Len(rejections) : rejections[i].at < Len(processed)

C23_InitialState ==
    /\ processed = <<>> =>
          /\ ~IsSome(next_message) /\ ~IsSome(message)
          /\ dequeued = <<>>
          /\ \/ pc = "top" /\ result = None
             \/ pc = "stopped" /\ result = Some(Outcome("ChannelClosed", 0)) /\ ~is_open
          /\ (pc = "top" /\ queue = <<>> /\ is_open) => ~ENABLED Consume
          /\ (pc = "top" /\ queue # <<>>) => ENABLED AwaitMessage
    /\ result = Some(Outcome("NoProgress", 0)) =>
          /\ Len(processed) >= 1
          /\ inv.via \in {"next", "try_next"}

\* The loop returned NoProgress after the one message it waited for.
C23_Witness ==
    /\ result = Some(Outcome("NoProgress", 0))
    /\ Len(processed) = 1
    /\ inv.via = "next"

\* The number of passes of the loop body in the current/last invocation.
InvPasses == inv.handles + inv.applies

\* The original reading of C24: every invocation of process_message comes to
\* an end, whatever the model answers.
C24_BoundedLoop == (pc = "process") ~> (pc # "process")

\* C24 (processor termination): the loop of process_message is left only by
\* the rejection of the initial intent, in the first pass, or after a pass whose
\* EffectApplied carried no next_effect; while it runs every pass so far
\* returned a next effect.  An invocation on a message whose chain is finite
\* comes to an end.  The loop has no bound of its own: with a model that
\* returns a next effect on every application no pass leaves it.
C24_ProcessorTermination ==
    /\ [](/\ Rejected => (inv.handles = 1 /\ inv.applies = 0 /\ inv.nexts = 0)
          /\ Returned => InvPasses = inv.nexts + 1
          /\ (pc = "process" /\ inv.nexts < MaxSpin) => InvPasses = inv.nexts
          /\ pc = "process" => ENABLED ConsumeSpin)
    /\ [][(pc = "process" /\ IsSpin(Unwrap(message))) =>
             (pc' = "process" /\ IsSpin(Unwrap(message')))]_vars
    /\ (pc = "process" /\ ~IsSpin(Unwrap(message))) ~> (pc # "process")

\* The loop has applied spinning effects MaxSpin times and is still running.
C24_Witness ==
    /\ pc = "process"
    /\ IsSpin(Unwrap(message))
    /\ inv.applies = MaxSpin
    /\ inv.nexts = MaxSpin

\* C25 (at most one next action per step): no pass of the loop of
\* process_message both spawns a task and goes on with a next effect; a task
\* returned in a pass of the current/last invocation is from a pass that
\* returned no next effect, so that no more than `step` next effects have been
\* returned when a task of chain position `step` is there.
C25_AtMostOneNextAction ==
    \A i \in 1..Len(inv.returned) :
        /\ inv.returned[i].step >= inv.nexts
        /\ inv.spawns + inv.nexts <= InvPasses

\* C26 (Progressing by render feedback implies pending work): when
\* process_message has returned Progressing with no task spawned, because
\* render_model returned an intent, the channel is not empty from that moment
\* until the loop takes the next message out.
C26_RenderProgressPending ==
    (/\ pc = "top"
     /\ inv.outcome.kind = "Progressing"
     /\ inv.spawns = 0
     /\ inv.observed > 0) => queue # <<>>

\* The ids of the messages in a queue, in order.
Ids(q) == [i \in 1..Len(q) |-> q[i].id]

\* C27 (rejection leaves the queue intact): the pass that rejects an intent
\* returns from consume_messages without touching the channel or the model:
\* the model is as it was before the intent, nothing is buffered, and the
\* messages the channel accepted and the loop has not processed are all in the
\* queue, in the order in which they were accepted.  Calling consume_messages
\* again leaves them there (a message sent in between goes behind them), and
\* the loop then processes them in that order.
C27_RejectionKeepsQueue ==
    /\ [](/\ (pc = "stopped" /\ result = Some(Outcome("IntentRejected", inv.outcome.reason))
                /\ Rejected) =>
                /\ model = inv.model_before
                /\ ~IsSome(next_message) /\ ~IsSome(message)
                /\ processed = dequeued
                /\ accepted = processed \o Ids(queue)
          /\ \A i \in 1..Len(rejections) :
                \A k \in 1..Len(rejections[i].queue) :
                   Len(processed) >= rejections[i].at + k =>
                      processed[rejections[i].at + k] = rejections[i].queue[k].id)
    /\ [][(pc = "process" /\ inv'.outcome.kind = "IntentRejected") =>
             /\ queue' = queue /\ parked_queue' = parked_queue
             /\ model' = model
             /\ pc' = "stopped"]_vars
    /\ [][Len(rejections') > Len(rejections) =>
             /\ IsPrefix(queue, queue')
             /\ model' = model
             /\ rejections'[Len(rejections')].queue = queue
             /\ pc' = "top" /\ ~IsSome(next_message')]_vars

\* A message was queued behind the intent that was rejected; the second call of
\* consume_messages has processed it.
C27_Witness ==
    \E i \in 1..Len(rejections) :
        /\ rejections[i].queue # <<>>
        /\ Len(processed) > rejections[i].at
        /\ processed[rejections[i].at + 1] = rejections[i].queue[1].id
        /\ inv.outcome.kind \in {"Progressing", "NoProgress"}

\* C28 (idle stop implies an empty channel): the step by which the loop
\* returns NoProgress is the poll after a message that yielded NoProgress, and
\* it finds the channel empty and open; so when the loop has stopped as idle
\* every message the channel accepted has been taken out and processed, in
\* order, and none is left in the channel or buffered.
C28_IdleStopEmptyChannel ==
    /\ [](result = Some(Outcome("NoProgress", 0)) =>
             /\ pc = "stopped"
             /\ queue = <<>> /\ parked_queue = <<>>
             /\ ~IsSome(next_message) /\ ~IsSome(message)
             /\ accepted = processed
             /\ dequeued = processed)
    /\ [][(result # Some(Outcome("NoProgress", 0))
               /\ result' = Some(Outcome("NoProgress", 0))) =>
             /\ pc = "try_next"
             /\ inv.outcome.kind = "NoProgress"
             /\ queue = <<>> /\ is_open
             /\ accepted = processed]_vars

\* A message came in while the one before it was processed; the poll found it,
\* it was processed too, and only then the loop stopped as idle.
C28_Witness ==
    /\ result = Some(Outcome("NoProgress", 0))
    /\ inv.via = "try_next"
    /\ Len(processed) >= 2
    /\ accepted = processed

\* C29 (closed means drained): closing the channel leaves the queued messages
\* where they are, and a closed channel still hands them out.  The loop returns
\* ChannelClosed only from a receive or a poll that finds the channel closed
\* and empty with nothing buffered; then every message the channel ever
\* accepted (all of them before the close) has been processed, in the order
\* in which it was accepted.
C29_ClosedMeansDrained ==
    /\ [](/\ result = Some(Outcome("ChannelClosed", 0)) =>
                /\ pc = "stopped"
                /\ ~is_open
                /\ queue = <<>>
                /\ ~IsSome(next_message) /\ ~IsSome(message)
                /\ processed = accepted
          /\ (~is_open /\ queue # <<>> /\ pc = "top") =>
                (ENABLED AwaitMessage \/ ENABLED TakeNextMessage))
    /\ [][(is_open /\ ~is_open') => (queue' = queue /\ accepted' = accepted)]_vars
    /\ [][~is_open => IsPrefix(accepted', accepted)]_vars
    /\ [][(result # Some(Outcome("ChannelClosed", 0))
               /\ result' = Some(Outcome("ChannelClosed", 0))) =>
             /\ pc \in {"top", "try_next"}
             /\ queue = <<>> /\ ~is_open
             /\ ~IsSome(next_message)]_vars

\* A producer found the channel closed while a message was queued in it; that
\* message was received and processed before the loop returned ChannelClosed.
C29_Witness ==
    /\ result = Some(Outcome("ChannelClosed", 0))
    /\ processed = accepted
    /\ processed # <<>>
    /\ \E d \in dropped :
          /\ d.why = "disconnected"
          /\ d.from = ExtSender
          /\ d.qlen = Len(accepted)

====
